---------------------------- MODULE Spec2Model ----------------------------
(***************************************************************************)
(* A model of the autobuilder configuration core (autobuilder/abconfig.py): *)
(* the domain objects and their validation, the process-wide configuration  *)
(* registry, the expansion of a configuration into builders, the elastic    *)
(* worker launch parameters and the GitHub webhook event handlers.          *)
(*                                                                         *)
(* Python values are modelled as follows: an optional value is None or      *)
(* Some(v); a list is a sequence; a dict is a function on its keys; a       *)
(* constructor is an operator that yields Raise(kind) or Ok(object).        *)
(***************************************************************************)
EXTENDS Integers, Sequences, FiniteSets, TLC

VARIABLES
    registry,   \* settings.settings_dict(): the registered configurations, in registration order
    events,     \* the webhook events in flight: each handler's position, payload and result
    last        \* the operation performed last, with its arguments and its outcome

vars == <<registry, events, last>>

-----------------------------------------------------------------------------
(* Bounds of the model *)

MaxImages == 2        \* longest images / sdkimages list of a TargetImageSet
MaxBuildtypes == 2    \* longest explicit buildtypes list of a Distro
MaxConfigs == 2       \* number of distinct configuration names
MaxTargets == 2       \* largest number of TargetImageSets of a Distro
MaxEvents == 2        \* webhook events in flight together

-----------------------------------------------------------------------------
(* Python values *)

None == [none |-> TRUE]
Some(v) == [none |-> FALSE, val |-> v]

\* bool(x) of an optional string: None and '' are false
TruthyStr(o) == (~o.none) /\ o.val # ""

\* bool(x) of an optional list or dict: None and the empty container are false
TruthyColl(o) == (~o.none) /\ DOMAIN o.val # {}

Raise(kind) == [ok |-> FALSE, error |-> kind]
Ok(obj) == [ok |-> TRUE, obj |-> obj]

\* the sequences over S of length at most n
SeqUpTo(S, n) == UNION {[1..k -> S] : k \in 0..n}

\* the values of a sequence
Range(s) == {s[i] : i \in DOMAIN s}

\* the concatenation of a sequence of sequences
RECURSIVE Flatten(_)
Flatten(ss) == IF ss = <<>> THEN <<>> ELSE Head(ss) \o Flatten(Tail(ss))

\* '{}'.format(n) of a natural number
Digit(d) == <<"0", "1", "2", "3", "4", "5", "6", "7", "8", "9">>[d + 1]
RECURSIVE FormatInt(_)
FormatInt(n) == IF n < 10 THEN Digit(n) ELSE FormatInt(n \div 10) \o Digit(n % 10)

-----------------------------------------------------------------------------
(* Domain objects *)

DEFAULT_BLDTYPES == <<"ci", "no-sstate", "snapshot", "release", "pr">>

\* Buildtype.__init__ (the flags the configuration logic reads)
Buildtype(name, defaulttype, pullrequesttype) ==
    [name |-> name, defaulttype |-> defaulttype, pullrequesttype |-> pullrequesttype]

\* Repo.__init__: project defaults to the name
Repo(name, uri, pollinterval, project) ==
    [name |-> name, uri |-> uri, pollinterval |-> pollinterval,
     project |-> IF TruthyStr(project) THEN project.val ELSE name]

\* TargetImageSet.__init__
TargetImageSet_init(name, images, sdkimages) ==
    IF images.none /\ sdkimages.none
    THEN Raise("RuntimeError")
    ELSE Ok([name |-> name, images |-> images, sdkimages |-> sdkimages])

\* Distro.__init__ with the default build type check weakened to "at least one"
Distro_init_AnyDefault(name, reponame, branch, targets, artifacts, buildtypes, weekly_type, push_type, pullrequest_type) ==
    LET bts == IF buildtypes.none
               THEN [i \in DOMAIN DEFAULT_BLDTYPES |->
                        Buildtype(DEFAULT_BLDTYPES[i], i = 1, FALSE)]
               ELSE buildtypes.val
        btdict == {bts[i].name : i \in DOMAIN bts}
        IsDefault(bt) == bt.defaulttype
        IsPR(bt) == bt.pullrequesttype
        defaultlist == SelectSeq(bts, IsDefault)
        prtypelist == SelectSeq(bts, IsPR)
    IN  IF Len(defaultlist) < 1 THEN Raise("RuntimeError")
        ELSE IF (~weekly_type.none) /\ weekly_type.val \notin btdict
        THEN Raise("RuntimeError")
        ELSE IF TruthyStr(pullrequest_type) /\ Len(prtypelist) # 1
        THEN Raise("RuntimeError")
        ELSE Ok([name |-> name, reponame |-> reponame, branch |-> branch,
                 targets |-> targets, artifacts |-> artifacts,
                 builder_names |-> None, repotimer |-> 300,
                 buildtypes |-> bts,
                 default_buildtype |-> defaultlist[1].name,
                 weekly_type |-> weekly_type,
                 push_type |-> IF TruthyStr(push_type)
                               THEN (IF push_type.val # "__default__"
                                     THEN push_type
                                     ELSE Some(defaultlist[1].name))
                               ELSE None,
                 pullrequest_type |-> IF TruthyStr(pullrequest_type)
                                      THEN Some(prtypelist[1].name)
                                      ELSE None])

\* Distro.__init__
Distro_init(name, reponame, branch, targets, artifacts, buildtypes, weekly_type, push_type, pullrequest_type) ==
    LET bts == IF buildtypes.none
               THEN [i \in DOMAIN DEFAULT_BLDTYPES |->
                        Buildtype(DEFAULT_BLDTYPES[i], i = 1, FALSE)]
               ELSE buildtypes.val
        btdict == {bts[i].name : i \in DOMAIN bts}
        IsDefault(bt) == bt.defaulttype
        IsPR(bt) == bt.pullrequesttype
        defaultlist == SelectSeq(bts, IsDefault)
        prtypelist == SelectSeq(bts, IsPR)
    IN  IF Len(defaultlist) # 1 THEN Raise("RuntimeError")
        ELSE IF (~weekly_type.none) /\ weekly_type.val \notin btdict
        THEN Raise("RuntimeError")
        ELSE IF TruthyStr(pullrequest_type) /\ Len(prtypelist) # 1
        THEN Raise("RuntimeError")
        ELSE Ok([name |-> name, reponame |-> reponame, branch |-> branch,
                 targets |-> targets, artifacts |-> artifacts,
                 builder_names |-> None, repotimer |-> 300,
                 buildtypes |-> bts,
                 default_buildtype |-> defaultlist[1].name,
                 weekly_type |-> weekly_type,
                 push_type |-> IF TruthyStr(push_type)
                               THEN (IF push_type.val # "__default__"
                                     THEN push_type
                                     ELSE Some(defaultlist[1].name))
                               ELSE None,
                 pullrequest_type |-> IF TruthyStr(pullrequest_type)
                                      THEN Some(prtypelist[1].name)
                                      ELSE None])

-----------------------------------------------------------------------------
(* Elastic workers *)

DefaultIops == 1000

default_svp == [name |-> "/dev/xvdf", size |-> 200, type |-> "standard", iops |-> None]

\* bool(x) of an optional number: None and 0 are false
TruthyInt(o) == (~o.none) /\ o.val # 0

\* EC2Params.__init__ (the fields the worker's launch parameters are derived from)
EC2Params_init(tags, scratchvol, scratchvol_params) ==
    [tags |-> tags,
     scratchvolparams |-> IF scratchvol
                          THEN (IF TruthyColl(scratchvol_params)
                                THEN scratchvol_params
                                ELSE Some(default_svp))
                          ELSE None]

\* the tags with the Name tag always set to the worker's name
WorkerTags_NameAlways(name, tags) ==
    IF TruthyColl(tags)
    THEN [k \in DOMAIN tags.val \cup {"Name"} |->
             IF k = "Name" THEN name ELSE tags.val[k]]
    ELSE [k \in {"Name"} |-> name]

\* the tags of AutobuilderEC2Worker.__init__
WorkerTags(name, tags) ==
    IF TruthyColl(tags)
    THEN (IF "Name" \notin DOMAIN tags.val
          THEN [k \in DOMAIN tags.val \cup {"Name"} |->
                   IF k = "Name" THEN name ELSE tags.val[k]]
          ELSE tags.val)
    ELSE [k \in {"Name"} |-> name]

\* the block device mapping with the volume type test left out
DevMapping_IopsAlways(svpo) ==
    IF TruthyColl(svpo)
    THEN LET svp == svpo.val
             iops == IF TruthyInt(svp.iops) THEN svp.iops.val ELSE DefaultIops
         IN  Some(<<[DeviceName |-> svp.name,
                     Ebs |-> [VolumeType |-> svp.type, VolumeSize |-> svp.size,
                              DeleteOnTermination |-> TRUE, Iops |-> iops]]>>)
    ELSE None

\* the block device mapping of AutobuilderEC2Worker.__init__
DevMapping(svpo) ==
    IF TruthyColl(svpo)
    THEN LET svp == svpo.val
             ebs == [VolumeType |-> svp.type, VolumeSize |-> svp.size,
                     DeleteOnTermination |-> TRUE]
             iops == IF TruthyInt(svp.iops) THEN svp.iops.val ELSE DefaultIops
         IN  Some(<<[DeviceName |-> svp.name,
                     Ebs |-> IF svp.type = "io1"
                             THEN [k \in DOMAIN ebs \cup {"Iops"} |->
                                      IF k = "Iops" THEN iops ELSE ebs[k]]
                             ELSE ebs]>>)
    ELSE None

\* AutobuilderEC2Worker.__init__; generated is what the random generator yields
AutobuilderEC2Worker_init(name, password, ec2params, generated) ==
    [name |-> name,
     password |-> IF TruthyStr(password) THEN password.val ELSE generated,
     ec2params |-> ec2params,
     ec2tags |-> WorkerTags(name, ec2params.tags),
     ec2_dev_mapping |-> DevMapping(ec2params.scratchvolparams)]

-----------------------------------------------------------------------------
(* The configuration registry (autobuilder.settings) and AutobuilderConfig *)

\* A dict in iteration order is a sequence of [key, val] items with distinct keys
Keys(d) == {d[i].key : i \in DOMAIN d}
Lookup(d, k) == d[CHOOSE i \in DOMAIN d : d[i].key = k].val

\* d[k] = v
Store(d, k, v) ==
    IF k \in Keys(d)
    THEN [i \in DOMAIN d |-> IF d[i].key = k THEN [key |-> k, val |-> v] ELSE d[i]]
    ELSE Append(d, [key |-> k, val |-> v])

\* settings.settings_dict(): the names, in registration order
settings_dict(reg) == [i \in DOMAIN reg |-> reg[i].key]

\* settings.get_config_for_builder(name)
get_config_for_builder(reg, name) == Lookup(reg, name)

\* settings.set_config_for_builder(name, cfg)
set_config_for_builder(reg, name, cfg) == Store(reg, name, cfg)

\* {self.repos[r].uri: r for r in self.repos}: a later repo with the same
\* uri takes the entry of an earlier one
RECURSIVE CodebaseMap(_)
CodebaseMap(repos) ==
    IF repos = <<>> THEN <<>>
    ELSE LET front == CodebaseMap(SubSeq(repos, 1, Len(repos) - 1))
             r == repos[Len(repos)]
         IN  Store(front, r.val.uri, r.key)

\* sorted(names) for the builder names of the model's distros and image sets
NameOrder == <<"alt-board", "alt-qemu", "poky-board", "poky-qemu">>
RECURSIVE Sorted(_)
Sorted(names) ==
    IF names = <<>> THEN <<>>
    ELSE LET least == CHOOSE i \in DOMAIN names :
                          \A j \in DOMAIN names :
                              \E a, b \in DOMAIN NameOrder :
                                  /\ NameOrder[a] = names[i]
                                  /\ NameOrder[b] = names[j]
                                  /\ a <= b
             rest == [k \in 1..(Len(names) - 1) |-> IF k < least THEN names[k] ELSE names[k + 1]]
         IN  <<names[least]>> \o Sorted(rest)

\* [d.name + '-' + imgset.name for imgset in d.targets]
BuilderNames(d) == [i \in DOMAIN d.targets.val |-> d.name \o "-" \o d.targets.val[i].name]

\* AutobuilderConfig.__init__ without the test for a registered name
AutobuilderConfig_init_NoNameCheck(names, name, workers, repos, distros) ==
    IF \E i \in DOMAIN distros : distros[i].targets.none THEN Raise("TypeError")
    ELSE LET ds == [i \in DOMAIN distros |->
                       [distros[i] EXCEPT !.builder_names = Some(BuilderNames(distros[i]))]]
         IN  Ok([name |-> name,
                 worker_names |-> [i \in DOMAIN workers |-> workers[i].name],
                 repos |-> repos,
                 distros |-> ds,
                 all_builder_names |-> Sorted(Flatten([i \in DOMAIN ds |-> ds[i].builder_names.val])),
                 codebasemap |-> CodebaseMap(repos)])

\* AutobuilderConfig.__init__ up to the registration: iterating the targets
\* of a Distro that has none (targets=None) is a TypeError
AutobuilderConfig_init(names, name, workers, repos, distros) ==
    IF name \in Range(names) THEN Raise("RuntimeError")
    ELSE IF \E i \in DOMAIN distros : distros[i].targets.none THEN Raise("TypeError")
    ELSE LET ds == [i \in DOMAIN distros |->
                       [distros[i] EXCEPT !.builder_names = Some(BuilderNames(distros[i]))]]
         IN  Ok([name |-> name,
                 worker_names |-> [i \in DOMAIN workers |-> workers[i].name],
                 repos |-> repos,
                 distros |-> ds,
                 all_builder_names |-> Sorted(Flatten([i \in DOMAIN ds |-> ds[i].builder_names.val])),
                 codebasemap |-> CodebaseMap(repos)])

\* AutobuilderConfig.project_from_url
project_from_url(cfg, repo_url) ==
    IF repo_url \in Keys(cfg.codebasemap) /\ Lookup(cfg.codebasemap, repo_url) \in Keys(cfg.repos)
    THEN Some(Lookup(cfg.repos, Lookup(cfg.codebasemap, repo_url)).project)
    ELSE None

\* AutobuilderConfig.codebase_generator
codebase_generator(cfg, change_dict) == Lookup(cfg.codebasemap, change_dict.repository)

\* get_project_for_url: the first registered configuration that knows the url
RECURSIVE ProjectScan(_, _, _, _)
ProjectScan(reg, names, repo_url, default_if_not_found) ==
    IF names = <<>> THEN default_if_not_found
    ELSE LET proj == project_from_url(get_config_for_builder(reg, Head(names)), repo_url)
         IN  IF ~proj.none THEN proj
             ELSE ProjectScan(reg, Tail(names), repo_url, default_if_not_found)

\* get_project_for_url scanning the configurations latest first
Reverse(s) == [i \in DOMAIN s |-> s[Len(s) + 1 - i]]
get_project_for_url_LatestFirst(reg, repo_url, default_if_not_found) ==
    ProjectScan(reg, Reverse(settings_dict(reg)), repo_url, default_if_not_found)

get_project_for_url(reg, repo_url, default_if_not_found) ==
    ProjectScan(reg, settings_dict(reg), repo_url, default_if_not_found)

-----------------------------------------------------------------------------
(* Expansion of a configuration: builders and schedulers *)

\* ' '.join(words)
RECURSIVE JoinSpace(_)
JoinSpace(words) ==
    IF words = <<>> THEN ""
    ELSE IF Len(words) = 1 THEN words[1]
    ELSE words[1] \o " " \o JoinSpace(Tail(words))

\* the BuilderConfigs of one Distro in AutobuilderConfig.builders
DistroBuilders(cfg, d) ==
    LET repo == Lookup(cfg.repos, d.reponame)
    IN  [j \in DOMAIN d.targets.val |->
            [name |-> d.name \o "-" \o d.targets.val[j].name,
             workernames |-> cfg.worker_names,
             properties |-> [project |-> repo.project, repourl |-> repo.uri,
                             branch |-> d.branch,
                             artifacts |-> JoinSpace(d.artifacts.val),
                             autobuilder |-> cfg.name, distro |-> d.name,
                             imageset |-> d.targets.val[j].name],
             factory |-> [repourl |-> repo.uri, branch |-> d.branch,
                          codebase |-> d.reponame,
                          imagedict |-> d.targets.val[j].images,
                          sdktargets |-> d.targets.val[j].sdkimages]]]

\* AutobuilderConfig.builders: joining the artifacts of a Distro that has
\* none (artifacts=None) is a TypeError
builders(cfg) ==
    IF \E i \in DOMAIN cfg.distros : cfg.distros[i].artifacts.none
    THEN Raise("TypeError")
    ELSE Ok(Flatten([i \in DOMAIN cfg.distros |-> DistroBuilders(cfg, cfg.distros[i])]))

\* Distro.codebases
codebases(d, repos) == <<[key |-> d.reponame, val |-> [repository |-> Lookup(repos, d.reponame).uri]]>>

\* Distro.codebaseparamlist
codebaseparamlist(d, repos) ==
    <<[codebase |-> d.reponame, repository |-> Lookup(repos, d.reponame).uri,
       branch |-> d.branch, project |-> Lookup(repos, d.reponame).project]>>

\* the schedulers of one Distro in AutobuilderConfig.schedulers; slot is
\* what settings.get_weekly_slot() hands out
DistroSchedulers(cfg, d, slot) ==
    LET md_filter(category) ==
            [project |-> Lookup(cfg.repos, d.reponame).project, branch |-> d.branch,
             codebase |-> d.reponame, category |-> <<category>>]
        push == [type |-> "SingleBranchScheduler", name |-> d.name,
                 change_filter |-> md_filter("push"),
                 treeStableTimer |-> d.repotimer,
                 properties |-> [buildtype |-> d.push_type.val],
                 codebases |-> codebases(d, cfg.repos),
                 builderNames |-> d.builder_names.val]
        pr == [type |-> "SingleBranchScheduler", name |-> d.name \o "-pr",
               change_filter |-> md_filter("pull"),
               treeStableTimer |-> d.repotimer,
               properties |-> [buildtype |-> d.pullrequest_type.val],
               codebases |-> codebases(d, cfg.repos),
               builderNames |-> d.builder_names.val]
        force == [type |-> "AutobuilderForceScheduler", name |-> d.name \o "-force",
                  codebases |-> codebaseparamlist(d, cfg.repos),
                  properties |-> [choices |-> [i \in DOMAIN d.buildtypes |-> d.buildtypes[i].name],
                                  default |-> d.default_buildtype],
                  builderNames |-> d.builder_names.val]
        weekly == [type |-> "Nightly", name |-> d.name \o "-" \o "weekly",
                   properties |-> [buildtype |-> d.weekly_type.val],
                   codebases |-> codebases(d, cfg.repos),
                   builderNames |-> d.builder_names.val,
                   slot |-> slot]
    IN  (IF ~d.push_type.none THEN <<push>> ELSE <<>>)
        \o (IF ~d.pullrequest_type.none THEN <<pr>> ELSE <<>>)
        \o <<force>>
        \o (IF ~d.weekly_type.none THEN <<weekly>> ELSE <<>>)

\* the repos of AutobuilderConfig.change_sources that get a poller: those
\* with a poll interval that is neither None nor 0, in the order of the dict
PolledRepos(cfg) ==
    LET polled(item) == TruthyInt(item.val.pollinterval)
    IN  SelectSeq(cfg.repos, polled)

\* AutobuilderConfig.change_sources: the branches of the first polled repo
\* are handed to sort(), a name that is not defined, which is a NameError;
\* without a polled repo the list of pollers stays empty
change_sources(cfg) ==
    IF PolledRepos(cfg) # <<>> THEN Raise("NameError") ELSE Ok(<<>>)

\* the schedulers of the first Distro alone
schedulers_FirstDistroOnly(cfg, slots) == DistroSchedulers(cfg, cfg.distros[1], slots[1])

\* AutobuilderConfig.schedulers; slots[i] is the weekly slot drawn for distro i
schedulers(cfg, slots) ==
    Flatten([i \in DOMAIN cfg.distros |-> DistroSchedulers(cfg, cfg.distros[i], slots[i])])

\* AutobuilderForceScheduler.computeBuilderNames
computeBuilderNames(self, builderNames, builderid) == self.builderNames

-----------------------------------------------------------------------------
(* GitHub webhook events (AutobuilderGithubEventHandler) *)

\* the default codebase callable of the handler
codebasemap_from_github_payload(reg, payload) ==
    IF "pull_request" \in DOMAIN payload
    THEN get_project_for_url(reg, payload.pull_request.base.repo.html_url, None)
    ELSE get_project_for_url(reg, payload.repository.html_url, None)

\* the head commit messages that carry a skip marker, as
\* GitHubEventHandler._has_skip tells them
SkipMessages == {"Fix bug [skip ci]", "[ci skip] Update docs"}
has_skip(msg) == msg \in SkipMessages

\* the changes GitHubEventHandler._process_change makes of a push: one per
\* commit, with the codebase the handler's codebase callable gives
process_change(reg, payload, user, repo, repo_url, project, event, properties) ==
    [i \in DOMAIN payload.commits |->
        [revision |-> payload.commits[i].id,
         author |-> payload.commits[i].author,
         comments |-> payload.commits[i].message,
         repository |-> repo_url,
         project |-> project,
         category |-> None,
         properties |-> properties,
         codebase |-> codebasemap_from_github_payload(reg, payload)]]

\* AutobuilderGithubEventHandler.handle_push
handle_push(reg, payload, event) ==
    LET repo == payload.repository.name
        repo_url == payload.repository.html_url
        project == get_project_for_url(reg, repo_url, Some(payload.repository.full_name))
        changeset == process_change(reg, payload, None, repo, repo_url, project.val, event, [event |-> event])
    IN  [changes |-> [i \in DOMAIN changeset |-> [changeset[i] EXCEPT !.category = "push"]],
         tag |-> "git"]

\* the action test widened to let a closed pull request through
AllowedActions_WithClosed == {Some("opened"), Some("reopened"), Some("synchronize"), Some("closed")}

\* the actions of a pull request that make a change
AllowedActions == {Some("opened"), Some("reopened"), Some("synchronize")}

\* the comments of a pull request's change with 'commits' always in the plural
PullRequestComments_AlwaysPlural(number, commits, title, comments) ==
    "GitHub Pull Request #" \o FormatInt(number) \o " (" \o FormatInt(commits) \o " commit"
        \o "s" \o ")\n" \o title \o "\n" \o comments

\* the comments of a pull request's change
PullRequestComments(number, commits, title, comments) ==
    "GitHub Pull Request #" \o FormatInt(number) \o " (" \o FormatInt(commits) \o " commit"
        \o (IF commits # 1 THEN "s" ELSE "") \o ")\n" \o title \o "\n" \o comments

\* AutobuilderGithubEventHandler.handle_pull_request from the answer of the
\* commit message lookup on (head_msg is what _get_commit_msg yielded)
handle_pull_request(reg, self, payload, event, head_msg) ==
    LET number == payload.number
        refname == "refs/pull/" \o FormatInt(number) \o "/" \o self.pullrequest_ref
        commits == payload.pull_request.commits
        title == payload.pull_request.title
        comments == payload.pull_request.body
        change == [revision |-> payload.pull_request.head.sha,
                   branch |-> refname,
                   revlink |-> payload.pull_request.href,
                   repository |-> payload.repository.html_url,
                   project |-> get_project_for_url(reg, payload.pull_request.base.repo.html_url,
                                   Some(payload.pull_request.base.repo.full_name)).val,
                   category |-> "pull",
                   author |-> payload.sender.login,
                   comments |-> PullRequestComments(number, commits, title, comments),
                   properties |-> [event |-> event, prnumber |-> number],
                   codebase |-> codebasemap_from_github_payload(reg, payload)]
    IN  IF has_skip(head_msg) THEN [changes |-> <<>>, tag |-> "git"]
        ELSE IF payload.action \notin AllowedActions THEN [changes |-> <<>>, tag |-> "git"]
        ELSE [changes |-> <<change>>, tag |-> "git"]

-----------------------------------------------------------------------------
(* Inputs of the domain constructors *)

ImageNames == {"core-image", "dev-image"}
ImageLists == {None} \cup {Some(s) : s \in SeqUpTo(ImageNames, MaxImages)}
ImageSetNames == {"qemu", "board"}

BuildtypeNames == {"ci", "release"}
Buildtypes == {Buildtype(n, d, p) : n \in BuildtypeNames, d \in BOOLEAN, p \in BOOLEAN}
BuildtypeLists == {None} \cup {Some(s) : s \in SeqUpTo(Buildtypes, MaxBuildtypes)}
WeeklyTypes == {None, Some("ci"), Some("release"), Some("nightly")}
PushTypes == {Some("__default__"), None, Some("release")}
PullrequestTypes == {None, Some(""), Some("pr")}

VolumeTypes == {"standard", "io1", "gp2"}
IopsValues == {None, Some(500), Some(3000)}
ScratchvolParams == {None} \cup {Some([name |-> "/dev/xvdg", size |-> 100, type |-> t, iops |-> i]) : t \in VolumeTypes, i \in IopsValues}
TagKeys == {"Name", "env"}
TagValues == {"custom"}
TagMaps == {None} \cup {Some(m) : m \in UNION {[K -> TagValues] : K \in SUBSET TagKeys}}
WorkerNames == {"w1"}
Passwords == {None, Some("secret")}
GeneratedPasswords == {"aZ3kQ9xLm2Pq7RtY"}

-----------------------------------------------------------------------------
(* State *)

NoEvent == [pc |-> "idle"]
NoOp == [op |-> "none"]

InitRegistry == <<>>
InitEvents == [e \in 1..MaxEvents |-> NoEvent]

\* Before anything is constructed or received
Init ==
    /\ registry = InitRegistry
    /\ events = InitEvents
    /\ last = NoOp

-----------------------------------------------------------------------------
(* Construction of the domain objects: a constructor call is pending with  *)
(* its arguments, and the constructor runs.                                *)

TargetImageSetArgs == [name : ImageSetNames, images : ImageLists, sdkimages : ImageLists]
DistroArgs == [buildtypes : BuildtypeLists, weekly_type : WeeklyTypes, push_type : PushTypes, pullrequest_type : PullrequestTypes]
EC2WorkerArgs == [name : WorkerNames, password : Passwords, generated : GeneratedPasswords, tags : TagMaps, scratchvol : BOOLEAN, scratchvol_params : ScratchvolParams]

Call(fn, args) == [op |-> "call", fn |-> fn, args |-> args]

InitDomain ==
    /\ registry = InitRegistry
    /\ events = InitEvents
    /\ last \in {Call("TargetImageSet", a) : a \in TargetImageSetArgs}
             \cup {Call("Distro", a) : a \in DistroArgs}
             \cup {Call("AutobuilderEC2Worker", a) : a \in EC2WorkerArgs}

NewTargetImageSet ==
    /\ last.op = "call" /\ last.fn = "TargetImageSet"
    /\ last' = [op |-> "TargetImageSet", args |-> last.args,
                result |-> TargetImageSet_init(last.args.name, last.args.images, last.args.sdkimages)]
    /\ UNCHANGED <<registry, events>>

NewDistro ==
    /\ last.op = "call" /\ last.fn = "Distro"
    /\ last' = [op |-> "Distro", args |-> last.args,
                result |-> Distro_init("poky", "r1", "master", None, None,
                                       last.args.buildtypes, last.args.weekly_type,
                                       last.args.push_type, last.args.pullrequest_type)]
    /\ UNCHANGED <<registry, events>>

NewEC2Worker ==
    /\ last.op = "call" /\ last.fn = "AutobuilderEC2Worker"
    /\ last' = [op |-> "AutobuilderEC2Worker", args |-> last.args,
                result |-> AutobuilderEC2Worker_init(last.args.name, last.args.password,
                               EC2Params_init(last.args.tags, last.args.scratchvol,
                                              last.args.scratchvol_params),
                               last.args.generated)]
    /\ UNCHANGED <<registry, events>>

NextDomain == NewTargetImageSet \/ NewDistro \/ NewEC2Worker

SpecDomain == InitDomain /\ [][NextDomain]_vars

-----------------------------------------------------------------------------
(* Registration of configurations and project lookup *)

CfgNameList == <<"ab1", "ab2", "ab3", "ab4">>
CfgNames == {CfgNameList[i] : i \in 1..MaxConfigs}

RepoURLs == {"https://github.com/acme/fw", "https://github.com/acme/os"}
QueryURLs == RepoURLs \cup {"https://github.com/else/where"}
ProjectLabels == {None, Some("firmware")}
QueryDefaults == {None, Some("acme/fw")}
StaticWorkers == <<[name |-> "w1", password |-> "secret"]>>

Item(k, v) == [key |-> k, val |-> v]

\* repos dicts: one repo r1, or r1 labelled firmware and a second repo r2
RepoDicts ==
    {<<Item("r1", Repo("r1", u, None, p))>> : u \in RepoURLs, p \in ProjectLabels}
    \cup {<<Item("r1", Repo("r1", "https://github.com/acme/fw", None, Some("firmware"))),
            Item("r2", Repo("r2", u, Some(300), None))>> : u \in RepoURLs}

QemuImages == TargetImageSet_init("qemu", Some(<<"core-image">>), None).obj
BoardImages == TargetImageSet_init("board", Some(<<"core-image">>), Some(<<"dev-image">>)).obj

\* a Distro with one image set, and one built with the default targets=None
PokyDistro == Distro_init("poky", "r1", "master", Some(<<QemuImages>>), Some(<<"images">>), None, None, Some("__default__"), None).obj
NoTargetsDistro == Distro_init("alt", "r1", "next", None, None, None, None, Some("__default__"), None).obj
RegistryDistroLists == {<<PokyDistro>>, <<PokyDistro, NoTargetsDistro>>}

\* AutobuilderConfig(name, workers, repos, distros): the configuration
\* registers itself as the last step of a construction that did not raise
Construct(name, workers, repos, distros) ==
    LET r == AutobuilderConfig_init(settings_dict(registry), name, workers, repos, distros)
    IN  /\ registry' = IF r.ok THEN set_config_for_builder(registry, name, r.obj) ELSE registry
        /\ last' = [op |-> "AutobuilderConfig", name |-> name,
                    result |-> IF r.ok THEN [ok |-> TRUE] ELSE r]
        /\ UNCHANGED events

\* get_project_for_url(repo_url, default_if_not_found)
Query(repo_url, default_if_not_found) ==
    /\ last' = [op |-> "get_project_for_url", repo_url |-> repo_url,
                default_if_not_found |-> default_if_not_found,
                result |-> get_project_for_url(registry, repo_url, default_if_not_found)]
    /\ UNCHANGED <<registry, events>>

NextRegistry ==
    \/ \E name \in CfgNames, repos \in RepoDicts, distros \in RegistryDistroLists :
           Construct(name, StaticWorkers, repos, distros)
    \/ \E repo_url \in QueryURLs, default_if_not_found \in QueryDefaults :
           Query(repo_url, default_if_not_found)

SpecRegistry == Init /\ [][NextRegistry]_vars

-----------------------------------------------------------------------------
(* Expansion of a registered configuration *)

ExpandRepos ==
    <<Item("r1", Repo("r1", "https://github.com/acme/fw", None, Some("firmware"))),
      Item("r2", Repo("r2", "https://github.com/acme/os", Some(300), None))>>

ExpandTargets == {Some(t) : t \in SeqUpTo({QemuImages, BoardImages}, MaxTargets)}
ExpandArtifacts == {None, Some(<<"images", "sdk">>)}
ExpandBuildtypes == Some(<<Buildtype("ci", TRUE, FALSE), Buildtype("pr", FALSE, TRUE), Buildtype("release", FALSE, FALSE)>>)

\* the triggers of a Distro: weekly_type, push_type, pullrequest_type
ExpandTriggers ==
    {[weekly_type |-> None, push_type |-> Some("__default__"), pullrequest_type |-> None],
     [weekly_type |-> Some("release"), push_type |-> None, pullrequest_type |-> Some("pr")],
     [weekly_type |-> None, push_type |-> Some("release"), pullrequest_type |-> Some("pr")],
     [weekly_type |-> None, push_type |-> Some(""), pullrequest_type |-> Some("release")]}

PokyDistros ==
    {Distro_init("poky", "r1", "master", t, a, ExpandBuildtypes, g.weekly_type, g.push_type, g.pullrequest_type).obj :
        t \in ExpandTargets, a \in ExpandArtifacts, g \in ExpandTriggers}
AltDistro == Distro_init("alt", "r2", "next", Some(<<BoardImages>>), Some(<<"images">>), ExpandBuildtypes, Some("ci"), Some("__default__"), None).obj
ExpandDistroLists == {<<d>> : d \in PokyDistros} \cup {<<AltDistro, d>> : d \in PokyDistros}

WeeklySlots == {[dayOfWeek |-> 0, hour |-> 2, minute |-> 0], [dayOfWeek |-> 3, hour |-> 4, minute |-> 30]}
\* the slots drawn for the Distros of a configuration, one each
SlotAssignments == UNION {[1..Len(l) -> WeeklySlots] : l \in ExpandDistroLists}
BuilderNameFilters == {None, Some(<<>>), Some(<<"other-builder">>), Some(<<"poky-qemu">>)}
BuilderIdFilters == {None, Some(7)}

\* abcfg.builders of a registered configuration
GetBuilders(name) ==
    /\ name \in Keys(registry)
    /\ last' = [op |-> "builders", name |-> name,
                result |-> builders(get_config_for_builder(registry, name))]
    /\ UNCHANGED <<registry, events>>

\* abcfg.schedulers of a registered configuration
GetSchedulers(name, slots) ==
    /\ name \in Keys(registry)
    /\ DOMAIN slots = DOMAIN get_config_for_builder(registry, name).distros
    /\ last' = [op |-> "schedulers", name |-> name,
                result |-> schedulers(get_config_for_builder(registry, name), slots)]
    /\ UNCHANGED <<registry, events>>

\* computeBuilderNames(builderNames, builderid) of the force scheduler of
\* distro i of a registered configuration
ForceComputeBuilderNames(name, slots, i, builderNames, builderid) ==
    /\ name \in Keys(registry)
    /\ DOMAIN slots = DOMAIN get_config_for_builder(registry, name).distros
    /\ i \in DOMAIN get_config_for_builder(registry, name).distros
    /\ LET cfg == get_config_for_builder(registry, name)
           all == schedulers(cfg, slots)
           force == all[CHOOSE j \in DOMAIN all : all[j].name = cfg.distros[i].name \o "-force"]
       IN  last' = [op |-> "computeBuilderNames", name |-> name, distro |-> i,
                    builderNames |-> builderNames, builderid |-> builderid,
                    result |-> computeBuilderNames(force, builderNames, builderid)]
    /\ UNCHANGED <<registry, events>>

NextExpand ==
    \/ \E distros \in ExpandDistroLists :
           Construct(CfgNameList[1], StaticWorkers, ExpandRepos, distros)
    \/ GetBuilders(CfgNameList[1])
    \/ \E slots \in SlotAssignments :
           GetSchedulers(CfgNameList[1], slots)
    \/ \E slots \in SlotAssignments, i \in 1..2, builderNames \in BuilderNameFilters, builderid \in BuilderIdFilters :
           ForceComputeBuilderNames(CfgNameList[1], slots, i, builderNames, builderid)

SpecExpand == Init /\ [][NextExpand]_vars

-----------------------------------------------------------------------------
(* The pollers of a registered configuration *)

PollIntervals == {None, Some(0), Some(300)}
PollerRepoDicts ==
    {<<Item("r1", Repo("r1", "https://github.com/acme/fw", i1, Some("firmware"))),
       Item("r2", Repo("r2", "https://github.com/acme/os", i2, None))>> :
        i1 \in PollIntervals, i2 \in {None, Some(60)}}

PollerPushTypes == {None, Some("__default__")}
PollerPokyDistros ==
    {Distro_init("poky", "r1", "master", Some(<<QemuImages>>), Some(<<"images">>), None, None, p, None).obj :
        p \in PollerPushTypes}
PollerAltDistros ==
    {Distro_init("alt", r, b, Some(<<BoardImages>>), Some(<<"images">>), None, None, p, None).obj :
        r \in {"r1", "r2"}, b \in {"master", "next"}, p \in PollerPushTypes}
PollerDistroLists ==
    {<<d>> : d \in PollerPokyDistros}
    \cup {<<d, a>> : d \in PollerPokyDistros, a \in PollerAltDistros}
    \cup {<<a, d>> : d \in PollerPokyDistros, a \in PollerAltDistros}

\* abcfg.change_sources of a registered configuration
GetChangeSources(name) ==
    /\ name \in Keys(registry)
    /\ last' = [op |-> "change_sources", name |-> name,
                result |-> change_sources(get_config_for_builder(registry, name))]
    /\ UNCHANGED <<registry, events>>

NextPollers ==
    \/ \E repos \in PollerRepoDicts, distros \in PollerDistroLists :
           Construct(CfgNameList[1], StaticWorkers, repos, distros)
    \/ GetChangeSources(CfgNameList[1])

SpecPollers == Init /\ [][NextPollers]_vars

-----------------------------------------------------------------------------
(* Webhook events in flight *)

\* the configurations the webhook handlers run against: ab1 labels its repo
\* r1 'firmware', ab2 leaves the label of r1 at its name and has a repo r2
WebhookRepos ==
    <<<<Item("r1", Repo("r1", "https://github.com/acme/fw", None, Some("firmware")))>>,
      <<Item("r1", Repo("r1", "https://github.com/acme/fw", None, None)),
        Item("r2", Repo("r2", "https://github.com/acme/os", Some(300), None))>>>>

\* the registry after constructing the configurations numbered in order
RECURSIVE Registered(_)
Registered(order) ==
    IF order = <<>> THEN InitRegistry
    ELSE LET reg == Registered(SubSeq(order, 1, Len(order) - 1))
             n == order[Len(order)]
             r == AutobuilderConfig_init(settings_dict(reg), CfgNameList[n], StaticWorkers, WebhookRepos[n], <<PokyDistro>>)
         IN  IF r.ok THEN set_config_for_builder(reg, CfgNameList[n], r.obj) ELSE reg

WebhookRegistries == {Registered(o) : o \in {<<>>, <<1>>, <<2>>, <<1, 2>>, <<2, 1>>}}

\* the handler's pull request ref flavor
RefFlavors == {"merge", "head"}
Handlers == {[pullrequest_ref |-> f] : f \in RefFlavors}

\* what a commit message lookup can answer
HeadMessages == {"Fix bug", "Fix bug [skip ci]", "[ci skip] Update docs", "No message field"}

PRNumbers == {7, 42}
PRActions == {Some("opened"), Some("reopened"), Some("synchronize"), Some("closed"), Some("edited"), None}
PRCommitCounts == {1, 3}
EventRepos == {[html_url |-> "https://github.com/acme/fw", name |-> "fw", full_name |-> "acme/fw"],
               [html_url |-> "https://github.com/else/where", name |-> "where", full_name |-> "else/where"]}

\* a pull_request payload as GitHub delivers it: the event's repository is
\* the base repository of the pull request
PRPayload(number, action, commits, repo) ==
    [number |-> number, action |-> action,
     pull_request |-> [commits |-> commits, title |-> "Fix bug", body |-> "Details",
                       head |-> [sha |-> "9fceb02"],
                       href |-> "https://github.com/pulls",
                       base |-> [repo |-> repo]],
     repository |-> repo,
     sender |-> [login |-> "octocat"]]
PRPayloads == {PRPayload(n, a, k, r) : n \in PRNumbers, a \in PRActions, k \in PRCommitCounts, r \in EventRepos}

Commit(id) == [id |-> id, author |-> "octocat <octocat@github.com>", message |-> "Fix bug"]
PushPayload(commits, repo) == [repository |-> repo, commits |-> commits]
PushPayloads == {PushPayload(c, r) : c \in {<<Commit("9fceb02")>>, <<Commit("9fceb02"), Commit("1c002dd")>>}, r \in EventRepos}

\* the payloads of the events that are in flight together
ConcPRPayloads == {PRPayload(42, Some("opened"), 3, r) : r \in EventRepos}
ConcPushPayloads == {PushPayload(<<Commit("9fceb02")>>, r) : r \in EventRepos}
ConcMessages == {"Fix bug", "Fix bug [skip ci]"}
ConcHandlers == {[pullrequest_ref |-> "merge"]}

\* handle_pull_request up to its yield: the handler waits for the head
\* commit message
ReceivePullRequest(e, self, payload) ==
    /\ events[e].pc = "idle"
    /\ events' = [events EXCEPT ![e] = [pc |-> "awaiting", kind |-> "pull_request",
                                        self |-> self, payload |-> payload]]
    /\ UNCHANGED <<registry, last>>

\* the lookup answers with waiting events serialised: an event resumes only
\* when no event before it is still waiting
LookupAnswers_InOrder(e, head_msg) ==
    /\ events[e].pc = "awaiting"
    /\ \A f \in DOMAIN events : f < e => events[f].pc # "awaiting"
    /\ events' = [events EXCEPT ![e] =
                     [pc |-> "done", kind |-> "pull_request", self |-> events[e].self,
                      payload |-> events[e].payload, head_msg |-> head_msg,
                      result |-> handle_pull_request(registry, events[e].self, events[e].payload,
                                                     "pull_request", head_msg)]]
    /\ UNCHANGED <<registry, last>>

\* the lookup answers: handle_pull_request resumes after its yield and runs
\* to its return
LookupAnswers(e, head_msg) ==
    /\ events[e].pc = "awaiting"
    /\ events' = [events EXCEPT ![e] =
                     [pc |-> "done", kind |-> "pull_request", self |-> events[e].self,
                      payload |-> events[e].payload, head_msg |-> head_msg,
                      result |-> handle_pull_request(registry, events[e].self, events[e].payload,
                                                     "pull_request", head_msg)]]
    /\ UNCHANGED <<registry, last>>

\* the lookup fails: the exception leaves handle_pull_request at its yield
\* and the handler returns nothing
LookupFails(e) ==
    /\ events[e].pc = "awaiting"
    /\ events' = [events EXCEPT ![e] = [pc |-> "failed", kind |-> "pull_request",
                                        self |-> events[e].self, payload |-> events[e].payload]]
    /\ UNCHANGED <<registry, last>>

\* handle_push: runs to its return without waiting
ReceivePush(e, payload) ==
    /\ events[e].pc = "idle"
    /\ events' = [events EXCEPT ![e] = [pc |-> "done", kind |-> "push", payload |-> payload,
                                        result |-> handle_push(registry, payload, "push")]]
    /\ UNCHANGED <<registry, last>>

InitWebhook ==
    /\ registry \in WebhookRegistries
    /\ events = InitEvents
    /\ last = NoOp

\* one event at a time, over every payload
NextPullRequest ==
    \/ \E self \in Handlers, payload \in PRPayloads : ReceivePullRequest(1, self, payload)
    \/ \E head_msg \in HeadMessages : LookupAnswers(1, head_msg)
    \/ LookupFails(1)
    \/ \E payload \in PushPayloads : ReceivePush(1, payload)

SpecPullRequest == InitWebhook /\ [][NextPullRequest]_vars

\* several events in flight
NextEvents ==
    \E e \in 1..MaxEvents :
        \/ \E self \in ConcHandlers, payload \in ConcPRPayloads : ReceivePullRequest(e, self, payload)
        \/ \E head_msg \in ConcMessages : LookupAnswers(e, head_msg)
        \/ LookupFails(e)
        \/ \E payload \in ConcPushPayloads : ReceivePush(e, payload)

SpecEvents == InitWebhook /\ [][NextEvents]_vars

-----------------------------------------------------------------------------
(* Chat notification (autobuilder/slack.py) *)

\* the build results of buildbot.process.results
SUCCESS == 0
WARNINGS == 1
FAILURE == 2
SKIPPED == 3
EXCEPTION == 4
RETRY == 5
CANCELLED == 6

\* the color table of the notifier
COLORS ==
    <<Item(CANCELLED, "warning"), Item(EXCEPTION, "warning"), Item(FAILURE, "danger"),
      Item(SUCCESS, "good"), Item(WARNINGS, "warning")>>

\* d.get(k, default), where k may be None
Get(d, k, default) == IF (~k.none) /\ k.val \in Keys(d) THEN Lookup(d, k.val) ELSE default

\* '%s' % x of an optional string
FormatStr(o) == IF o.none THEN "None" ELSE o.val

\* SlackNotifier.reconfigService: the hook and the color table of the notifier
reconfigService(hook, colors) ==
    [hook |-> hook, colors |-> IF ~colors.none THEN colors.val ELSE COLORS]

\* the message sendMessage posts
SlackMessage(self, body, subject, results) ==
    [attachments |-> <<[color |-> Get(self.colors, results, "warning"),
                        text |-> FormatStr(subject) \o "\n" \o body]>>]

\* what sendMessage logs of a response
ResponseLog(response) ==
    IF response.code # 200
    THEN <<"POST response code " \o FormatInt(response.code) \o ": " \o response.content>>
    ELSE <<>>

\* the inputs of the notifier
Hooks == {"T000/B000/XXXX"}
ColorTables == {None, Some(<<Item(SUCCESS, "#36a64f"), Item(FAILURE, "#d00000")>>)}
Notifiers == {reconfigService(h, c) : h \in Hooks, c \in ColorTables}
BuildResults == {None} \cup {Some(r) : r \in {SUCCESS, WARNINGS, FAILURE, SKIPPED, EXCEPTION, RETRY, CANCELLED}}
Subjects == {None, Some("Buildbot success in autobuilder on poky-qemu")}
Bodies == {"Build succeeded"}
ResponseCodes == {200, 201, 204, 302, 404, 500}
ResponseContents == {"ok", "no_service"}
Responses == [code : ResponseCodes, content : ResponseContents]
PostErrors == {"ConnectionRefusedError", "ResponseNeverReceived"}

\* sendMessage up to its yield: the message is composed and posted to the
\* hook, and the notifier waits for the response
SendMessage(e, self, body, subject, results) ==
    /\ events[e].pc = "idle"
    /\ events' = [events EXCEPT ![e] =
                     [pc |-> "posting", kind |-> "sendMessage", self |-> self,
                      results |-> results,
                      post |-> [url |-> self.hook, json |-> SlackMessage(self, body, subject, results)],
                      logged |-> <<>>]]
    /\ UNCHANGED <<registry, last>>

\* the response arrives: sendMessage resumes after its yield, logs a
\* response whose code is not 200 and returns
PostAnswers(e, response) ==
    /\ events[e].pc = "posting"
    /\ events' = [events EXCEPT ![e] =
                     [events[e] EXCEPT !.pc = "done",
                                       !.logged = events[e].logged \o ResponseLog(response)]
                     @@ [response |-> response]]
    /\ UNCHANGED <<registry, last>>

\* the POST fails: the exception is thrown into sendMessage at its yield,
\* nothing catches it, and the Deferred sendMessage returned fails with it
PostFails(e, error) ==
    /\ events[e].pc = "posting"
    /\ events' = [events EXCEPT ![e] = [events[e] EXCEPT !.pc = "raised"] @@ [error |-> error]]
    /\ UNCHANGED <<registry, last>>

NextNotify ==
    \/ \E self \in Notifiers, body \in Bodies, subject \in Subjects, results \in BuildResults :
           SendMessage(1, self, body, subject, results)
    \/ \E response \in Responses : PostAnswers(1, response)
    \/ \E error \in PostErrors : PostFails(1, error)

SpecNotify == Init /\ [][NextNotify]_vars

-----------------------------------------------------------------------------
(* Properties of the domain constructors *)

\* The number of build types of a list that carry a flag
CountDefault(bts) == Cardinality({i \in DOMAIN bts : bts[i].defaulttype})
CountPullrequest(bts) == Cardinality({i \in DOMAIN bts : bts[i].pullrequesttype})

\* What a Distro call asks for: with no buildtypes list the Distro has the
\* five stock build types, the first one flagged default and none flagged PR
AskedDefaults(a) == IF a.buildtypes.none THEN 1 ELSE CountDefault(a.buildtypes.val)
AskedPullrequests(a) == IF a.buildtypes.none THEN 0 ELSE CountPullrequest(a.buildtypes.val)
AskedNames(a) ==
    IF a.buildtypes.none THEN {"ci", "no-sstate", "snapshot", "release", "pr"}
    ELSE {a.buildtypes.val[i].name : i \in DOMAIN a.buildtypes.val}
DistroMustFail(a) ==
    \/ AskedDefaults(a) # 1
    \/ (~a.pullrequest_type.none) /\ a.pullrequest_type.val # "" /\ AskedPullrequests(a) # 1
    \/ (~a.weekly_type.none) /\ a.weekly_type.val \notin AskedNames(a)

\* C6: Distro construction fails with the configuration error exactly when
\* the build types flagged default are not exactly one, or a pull-request
\* trigger is requested and the build types flagged pull-request are not
\* exactly one, or the weekly type names no build type of the Distro; when
\* it succeeds the default build type is the one flagged.
C6_DistroValidation ==
    last.op = "Distro" =>
        /\ (~last.result.ok) <=> DistroMustFail(last.args)
        /\ (~last.result.ok) => last.result.error = "RuntimeError"
        /\ last.result.ok =>
              \E i \in DOMAIN last.result.obj.buildtypes :
                  /\ last.result.obj.buildtypes[i].defaulttype
                  /\ last.result.obj.buildtypes[i].name = last.result.obj.default_buildtype
                  /\ \A j \in DOMAIN last.result.obj.buildtypes :
                        last.result.obj.buildtypes[j].defaulttype => j = i

\* A Distro with two build types flagged default was rejected
C6_Witness ==
    /\ last.op = "Distro"
    /\ ~last.args.buildtypes.none
    /\ CountDefault(last.args.buildtypes.val) = 2
    /\ ~last.result.ok

\* An images or sdkimages argument that holds no image
NoImages(o) == o.none \/ o.val = <<>>

\* C7: a TargetImageSet whose images and sdkimages are both empty, as empty
\* collections or not supplied, is rejected.
C7_EmptyImageSetRejected ==
    (last.op = "TargetImageSet" /\ NoImages(last.args.images) /\ NoImages(last.args.sdkimages))
        => ~last.result.ok

\* The volume type and IOPS a worker call asks for (the stock scratch volume
\* is of type standard with no IOPS)
AskedVolumeType(a) == IF a.scratchvol_params.none THEN "standard" ELSE a.scratchvol_params.val.type
AskedIops(a) == IF a.scratchvol_params.none THEN None ELSE a.scratchvol_params.val.iops

AskedTags(a) == IF a.tags.none THEN <<>> ELSE a.tags.val

\* C11: the final tags of an elastic worker named w with the supplied tag
\* map T (absent, empty or not) are T plus Name = w when T has no Name key
\* and T itself when it has one; every supplied tag keeps its value, and the
\* tag map the EC2Params holds is after the construction what was supplied.
C11_WorkerTags ==
    last.op = "AutobuilderEC2Worker" =>
        LET T == AskedTags(last.args)
            w == last.args.name
            final == last.result.ec2tags
        IN  /\ "Name" \in DOMAIN T => final = T
            /\ "Name" \notin DOMAIN T =>
                  /\ DOMAIN final = DOMAIN T \cup {"Name"}
                  /\ final["Name"] = w
            /\ \A k \in DOMAIN T : k \in DOMAIN final /\ final[k] = T[k]
            /\ last.result.ec2params.tags = last.args.tags

\* A worker was given the tags Name and env and kept its custom Name
C11_Witness ==
    /\ last.op = "AutobuilderEC2Worker"
    /\ ~last.args.tags.none
    /\ DOMAIN last.args.tags.val = {"Name", "env"}
    /\ last.result.ec2tags["Name"] = "custom"
    /\ last.result.ec2tags["Name"] # last.args.name

\* A worker was given the tag env alone and got its own name as Name
C11_NameAdded ==
    /\ last.op = "AutobuilderEC2Worker"
    /\ ~last.args.tags.none
    /\ DOMAIN last.args.tags.val = {"env"}
    /\ last.result.ec2tags = [k \in {"Name", "env"} |-> IF k = "Name" THEN "w1" ELSE "custom"]

-----------------------------------------------------------------------------
(* Properties of the registry *)

\* The repos of registered configuration i that have the url
ReposWithURL(i, url) ==
    {k \in DOMAIN registry[i].val.repos : registry[i].val.repos[k].val.uri = url}
Knowing(url) == {i \in DOMAIN registry : ReposWithURL(i, url) # {}}

\* C4: get_project_for_url returns the project label of a repo with the url
\* in the earliest registered configuration that has the url, and the
\* caller's default (None when omitted) when no configuration has it.
C4_FirstRegisteredWins ==
    last.op = "get_project_for_url" =>
        IF Knowing(last.repo_url) = {}
        THEN last.result = last.default_if_not_found
        ELSE LET first == CHOOSE i \in Knowing(last.repo_url) :
                              \A j \in Knowing(last.repo_url) : i <= j
             IN  \E k \in ReposWithURL(first, last.repo_url) :
                     last.result = Some(registry[first].val.repos[k].val.project)

\* Two registered configurations label the url differently and the lookup
\* answered with the first one's label
C4_Witness ==
    /\ last.op = "get_project_for_url"
    /\ Len(registry) >= 2
    /\ {1, 2} \subseteq Knowing(last.repo_url)
    /\ \A k1 \in ReposWithURL(1, last.repo_url), k2 \in ReposWithURL(2, last.repo_url) :
           registry[1].val.repos[k1].val.project # registry[2].val.repos[k2].val.project
    /\ ~last.result.none

\* C5: constructing a configuration under a registered name fails with the
\* configuration error and leaves the registry as it was; the registry only
\* changes by a successful construction appending its configuration, and no
\* entry is removed or replaced.
C5_DuplicateNameRejected ==
    [][
        /\ (last'.op = "AutobuilderConfig" /\ last'.name \in Keys(registry))
              => /\ ~last'.result.ok
                 /\ last'.result.error = "RuntimeError"
                 /\ registry' = registry
        /\ (last'.op = "AutobuilderConfig" /\ ~last'.result.ok) => registry' = registry
        /\ registry' # registry
              => /\ last'.op = "AutobuilderConfig"
                 /\ last'.result.ok
                 /\ Len(registry') = Len(registry) + 1
                 /\ SubSeq(registry', 1, Len(registry)) = registry
                 /\ registry'[Len(registry')].key = last'.name
                 /\ registry'[Len(registry')].val.name = last'.name
                 /\ last'.name \notin Keys(registry)
    ]_vars

\* A construction under a registered name was rejected
C5_Witness ==
    /\ last.op = "AutobuilderConfig"
    /\ ~last.result.ok
    /\ last.result.error = "RuntimeError"
    /\ last.name \in Keys(registry)
    /\ Len(registry) = 2

-----------------------------------------------------------------------------
(* Properties of the expansion *)

\* the builder names '<distro.name>-<imageset.name>' of a Distro, one per image set
DerivedNames(d) == [j \in DOMAIN d.targets.val |-> d.name \o "-" \o d.targets.val[j].name]

\* the names of the builders of a builder list that belong to a Distro, in order
RECURSIVE NamesOfDistro(_, _)
NamesOfDistro(bs, dname) ==
    IF bs = <<>> THEN <<>>
    ELSE (IF Head(bs).properties.distro = dname THEN <<Head(bs).name>> ELSE <<>>)
         \o NamesOfDistro(Tail(bs), dname)

\* C8: the expansion yields, for every Distro of a configuration, exactly
\* one builder per target image set, named '<distro.name>-<imageset.name>',
\* and the Distro's force scheduler resolves to exactly these names whatever
\* builder filter it is called with.
C8_BuildersPerImageSet ==
    /\ last.op = "builders" =>
          /\ last.result.ok
          /\ \A i \in DOMAIN registry[1].val.distros :
                 NamesOfDistro(last.result.obj, registry[1].val.distros[i].name)
                     = DerivedNames(registry[1].val.distros[i])
    /\ last.op = "computeBuilderNames" =>
          last.result = DerivedNames(registry[1].val.distros[last.distro])

\* The same, for the configurations whose Distros all name their artifacts
C8_WithArtifacts ==
    /\ (last.op = "builders" /\ \A i \in DOMAIN registry[1].val.distros : ~registry[1].val.distros[i].artifacts.none) =>
          /\ last.result.ok
          /\ \A i \in DOMAIN registry[1].val.distros :
                 NamesOfDistro(last.result.obj, registry[1].val.distros[i].name)
                     = DerivedNames(registry[1].val.distros[i])
    /\ last.op = "computeBuilderNames" =>
          last.result = DerivedNames(registry[1].val.distros[last.distro])

\* the triggers the Distros of the model are declared with
DeclaredTriggers == ExpandTriggers \cup {[weekly_type |-> Some("ci"), push_type |-> Some("__default__"), pullrequest_type |-> None]}

\* the triggers a Distro of a configuration can have been declared with
TriggersOf(d) ==
    {g \in DeclaredTriggers :
        LET r == Distro_init(d.name, d.reponame, d.branch, d.targets, d.artifacts,
                             ExpandBuildtypes, g.weekly_type, g.push_type, g.pullrequest_type)
        IN  r.ok /\ [r.obj EXCEPT !.builder_names = d.builder_names] = d}

\* the names of the build types of a Distro flagged default, and flagged pull-request
DefaultNames(d) == {d.buildtypes[i].name : i \in {j \in DOMAIN d.buildtypes : d.buildtypes[j].defaulttype}}
PullrequestNames(d) == {d.buildtypes[i].name : i \in {j \in DOMAIN d.buildtypes : d.buildtypes[j].pullrequesttype}}

\* a trigger that is set: a name was given for it
TriggerSet(o) == (~o.none) /\ o.val # ""

\* the schedulers of a list that carry a name
SchedulersNamed(S, n) == {j \in DOMAIN S : S[j].name = n}

\* the schedulers (there is exactly one) named n are of a type, target the
\* builders of d and, bt being a set of names, inject one of them as buildtype
OneScheduler(S, n, type, d, bt) ==
    /\ Cardinality(SchedulersNamed(S, n)) = 1
    /\ \A j \in SchedulersNamed(S, n) :
           /\ S[j].type = type
           /\ S[j].builderNames = DerivedNames(d)
           /\ type # "AutobuilderForceScheduler" => S[j].properties.buildtype \in bt

\* the category a change-triggered scheduler filters on
CategoryOf(S, n) == {S[j].change_filter.category : j \in SchedulersNamed(S, n)}

\* C13: for every Distro of a configuration the schedulers list holds a
\* '-force' scheduler; a push scheduler named as the Distro, of category
\* push, exactly when the push trigger is set, injecting the push build type
\* (the Distro's default build type for the sentinel '__default__'); a '-pr'
\* scheduler of category pull exactly when the pull-request trigger is set,
\* injecting the name of the pull-request build type; a weekly scheduler
\* exactly when a weekly type is set; each targets exactly the Distro's
\* derived builder names, and the list holds nothing else.
C13_SchedulersPerDistro ==
    last.op = "schedulers" =>
        LET S == last.result
            ds == registry[1].val.distros
        IN  /\ \A i \in DOMAIN ds :
                   /\ TriggersOf(ds[i]) # {}
                   /\ \A g \in TriggersOf(ds[i]) :
                          LET d == ds[i]
                          IN  /\ OneScheduler(S, d.name \o "-force", "AutobuilderForceScheduler", d, {})
                              /\ IF TriggerSet(g.push_type)
                                 THEN /\ OneScheduler(S, d.name, "SingleBranchScheduler", d,
                                             IF g.push_type.val = "__default__"
                                             THEN DefaultNames(d) ELSE {g.push_type.val})
                                      /\ CategoryOf(S, d.name) = {<<"push">>}
                                 ELSE SchedulersNamed(S, d.name) = {}
                              /\ IF TriggerSet(g.pullrequest_type)
                                 THEN /\ OneScheduler(S, d.name \o "-pr", "SingleBranchScheduler", d,
                                             PullrequestNames(d))
                                      /\ CategoryOf(S, d.name \o "-pr") = {<<"pull">>}
                                 ELSE SchedulersNamed(S, d.name \o "-pr") = {}
                              /\ IF ~g.weekly_type.none
                                 THEN OneScheduler(S, d.name \o "-weekly", "Nightly", d, {g.weekly_type.val})
                                 ELSE SchedulersNamed(S, d.name \o "-weekly") = {}
            /\ \A j \in DOMAIN S :
                   \E i \in DOMAIN ds :
                       S[j].name \in {ds[i].name, ds[i].name \o "-pr", ds[i].name \o "-force", ds[i].name \o "-weekly"}

\* The schedulers of two Distros were derived: alt with the sentinel push
\* trigger and a weekly type, poky with a pull-request trigger and no push
\* scheduler
C13_Witness ==
    /\ last.op = "schedulers"
    /\ Len(registry[1].val.distros) = 2
    /\ \E j \in DOMAIN last.result :
           /\ last.result[j].name = "alt"
           /\ last.result[j].properties.buildtype = "ci"
           /\ last.result[j].builderNames = <<"alt-board">>
    /\ SchedulersNamed(last.result, "alt-weekly") # {}
    /\ SchedulersNamed(last.result, "poky-pr") # {}
    /\ SchedulersNamed(last.result, "poky") = {}
    /\ SchedulersNamed(last.result, "poky-force") # {}

\* the repos of a configuration that declare a poll interval
DeclaringInterval(cfg) == {k \in DOMAIN cfg.repos : TruthyInt(cfg.repos[k].val.pollinterval)}

\* the branches of the Distros that use a repo and have a push trigger
PushedBranches(cfg, reponame) ==
    {cfg.distros[i].branch : i \in {j \in DOMAIN cfg.distros :
        cfg.distros[j].reponame = reponame /\ ~cfg.distros[j].push_type.none}}

\* C14: change_sources returns one poller per Repo that declares a poll
\* interval and none for any other Repo; each poller has category push and
\* watches the branches of the Distros that use its repo and have a push
\* trigger, the same set whatever the order the Distros are declared in.
C14_PollersPerRepo ==
    last.op = "change_sources" =>
        LET cfg == registry[1].val
        IN  /\ last.result.ok
            /\ Len(last.result.obj) = Cardinality(DeclaringInterval(cfg))
            /\ \A k \in DeclaringInterval(cfg) :
                   \E j \in DOMAIN last.result.obj :
                       /\ last.result.obj[j].repourl = cfg.repos[k].val.uri
                       /\ last.result.obj[j].category = "push"
                       /\ Range(last.result.obj[j].branches) = PushedBranches(cfg, cfg.repos[k].key)

\* What change_sources does: it returns the empty list for a configuration
\* without a polled repo and raises NameError for any other
C14_NameErrorWhenPolled ==
    last.op = "change_sources" =>
        IF DeclaringInterval(registry[1].val) = {}
        THEN last.result = Ok(<<>>)
        ELSE last.result = Raise("NameError")

\* change_sources raised for a configuration with a polled repo whose
\* Distro has a push trigger
C14_Raised ==
    /\ last.op = "change_sources"
    /\ ~last.result.ok
    /\ PushedBranches(registry[1].val, "r1") = {"master"}
    /\ 1 \in DeclaringInterval(registry[1].val)

-----------------------------------------------------------------------------
(* Properties of the webhook handlers *)

\* the pull request events that have returned
DonePullRequests == {e \in DOMAIN events : events[e].pc = "done" /\ events[e].kind = "pull_request"}
DonePushes == {e \in DOMAIN events : events[e].pc = "done" /\ events[e].kind = "push"}

\* the head commit message carries a skip marker
Skipped(e) == events[e].head_msg \in {"Fix bug [skip ci]", "[ci skip] Update docs"}

\* the action is one of opened, reopened, synchronize
Proceeds(e) == events[e].payload.action \in {Some("opened"), Some("reopened"), Some("synchronize")}

\* C1: handle_pull_request returns no change and the tag 'git' when the head
\* commit message matches the skip pattern, whatever the action; otherwise
\* exactly one change for opened, reopened and synchronize, and no change
\* (tag 'git') for any other action or a missing one.
C1_SkipThenActionFilter ==
    \A e \in DonePullRequests :
        /\ events[e].result.tag = "git"
        /\ Skipped(e) => events[e].result.changes = <<>>
        /\ (~Skipped(e) /\ Proceeds(e)) => Len(events[e].result.changes) = 1
        /\ (~Skipped(e) /\ ~Proceeds(e)) => events[e].result.changes = <<>>

\* An opened pull request was suppressed by the skip marker
C1_Witness ==
    /\ 1 \in DonePullRequests
    /\ Skipped(1)
    /\ events[1].payload.action = Some("opened")
    /\ events[1].result = [changes |-> <<>>, tag |-> "git"]

\* the decimal numerals of the numbers that occur in the payloads
Numeral(n) == CASE n = 1 -> "1" [] n = 3 -> "3" [] n = 7 -> "7" [] n = 42 -> "42"
Plural(k) == IF k = 1 THEN "" ELSE "s"

\* the change of a pull request but for its comments
ChangeAsClaimed(e) ==
    LET p == events[e].payload
        c == events[e].result.changes[1]
    IN  /\ Len(events[e].result.changes) = 1
        /\ c.branch = "refs/pull/" \o Numeral(p.number) \o "/" \o events[e].self.pullrequest_ref
        /\ c.revision = p.pull_request.head.sha
        /\ c.category = "pull"
        /\ c.author = p.sender.login
        /\ c.repository = p.pull_request.base.repo.html_url

\* C2 as stated: the comments read 'Pull Request #<n> (<k> commit<s>)\n<t>\n<b>'
C2_CommentsAsStated ==
    \A e \in DonePullRequests :
        (~Skipped(e) /\ Proceeds(e)) =>
            /\ ChangeAsClaimed(e)
            /\ events[e].result.changes[1].comments =
                   "Pull Request #" \o Numeral(events[e].payload.number)
                   \o " (" \o Numeral(events[e].payload.pull_request.commits) \o " commit"
                   \o Plural(events[e].payload.pull_request.commits) \o ")\n"
                   \o events[e].payload.pull_request.title \o "\n"
                   \o events[e].payload.pull_request.body

\* C2: a pull request that is not suppressed yields one change with branch
\* 'refs/pull/<n>/<ref flavor>', the head sha as revision, category 'pull',
\* the sender's login as author, the base repo URL as repository, and the
\* comments 'GitHub Pull Request #<n> (<k> commit<s>)\n<t>\n<b>', <s> being
\* 's' unless k = 1.
C2_PullRequestChange ==
    \A e \in DonePullRequests :
        (~Skipped(e) /\ Proceeds(e)) =>
            /\ ChangeAsClaimed(e)
            /\ events[e].result.changes[1].comments =
                   "GitHub Pull Request #" \o Numeral(events[e].payload.number)
                   \o " (" \o Numeral(events[e].payload.pull_request.commits) \o " commit"
                   \o Plural(events[e].payload.pull_request.commits) \o ")\n"
                   \o events[e].payload.pull_request.title \o "\n"
                   \o events[e].payload.pull_request.body

\* Pull request 42 with 3 commits was synchronized and made its change
C2_Witness ==
    /\ 1 \in DonePullRequests
    /\ ~Skipped(1)
    /\ events[1].payload.action = Some("synchronize")
    /\ events[1].payload.number = 42
    /\ events[1].payload.pull_request.commits = 3
    /\ events[1].result.changes[1].branch = "refs/pull/42/merge"
    /\ events[1].result.changes[1].comments = "GitHub Pull Request #42 (3 commits)\nFix bug\nDetails"

\* the repo keys the registered configurations give a URL
KeysOfURL(url) ==
    UNION {{registry[i].val.repos[k].key : k \in ReposWithURL(i, url)} : i \in Knowing(url)}
EventURL(e) ==
    IF events[e].kind = "pull_request"
    THEN events[e].payload.pull_request.base.repo.html_url
    ELSE events[e].payload.repository.html_url

\* C3: the codebase of every change of a push or pull request event on a
\* registered repository URL is the repo key of that URL, the key the
\* Distro's schedulers filter on, not the repo's project label.
C3_CodebaseIsRepoKey ==
    \A e \in DonePullRequests \cup DonePushes :
        KeysOfURL(EventURL(e)) # {} =>
            \A i \in DOMAIN events[e].result.changes :
                /\ ~events[e].result.changes[i].codebase.none
                /\ events[e].result.changes[i].codebase.val \in KeysOfURL(EventURL(e))

\* what a handler returns from its own payload and its own lookup answer
OwnResult(e) ==
    IF events[e].kind = "pull_request"
    THEN handle_pull_request(registry, events[e].self, events[e].payload, "pull_request", events[e].head_msg)
    ELSE handle_push(registry, events[e].payload, "push")

\* C9: an event waiting for its commit message lookup holds no result and
\* stalls no other event: every waiting event can resume on its answer and
\* every idle slot can take and finish a push, whatever the other events are
\* doing; what an event returns is what its handler makes of its own payload
\* and its own answer.
C9_EventsIndependent ==
    \A e \in DOMAIN events :
        /\ events[e].pc \in {"idle", "awaiting", "failed"} => "result" \notin DOMAIN events[e]
        /\ events[e].pc = "awaiting" => \A m \in ConcMessages : ENABLED LookupAnswers(e, m)
        /\ events[e].pc = "idle" => \A p \in ConcPushPayloads : ENABLED ReceivePush(e, p)
        /\ events[e].pc = "done" => events[e].result = OwnResult(e)

\* A later pull request returned its change while an earlier one still
\* waits for its lookup
C9_Witness ==
    /\ events[1].pc = "awaiting"
    /\ \E e \in DonePullRequests : e > 1 /\ Len(events[e].result.changes) = 1

-----------------------------------------------------------------------------
(* Properties of the chat notification *)

\* the sendMessage calls that have returned, and those that raised
SentMessages == {e \in DOMAIN events : events[e].pc = "done" /\ events[e].kind = "sendMessage"}
RaisedMessages == {e \in DOMAIN events : events[e].pc = "raised" /\ events[e].kind = "sendMessage"}

\* a response status of the 2xx class
Is2xx(code) == code >= 200 /\ code <= 299

\* the color of the message a call posted
PostedColor(e) == events[e].post.json.attachments[1].color

\* C12: sendMessage never fails its caller whatever the outcome of the POST;
\* a response with a non-2xx status is logged, a response with a 2xx status
\* is not, and a build result absent from the color table is shown with the
\* fallback color.
C12_DeliveryNeverFails ==
    /\ RaisedMessages = {}
    /\ \A e \in SentMessages :
           /\ (~Is2xx(events[e].response.code)) => events[e].logged # <<>>
           /\ Is2xx(events[e].response.code) => events[e].logged = <<>>
           /\ (events[e].results.none \/ events[e].results.val \notin Keys(events[e].self.colors))
                 => PostedColor(e) = "warning"

\* What sendMessage does: a response is logged exactly when its status is
\* not 200, and a build result absent from the color table is shown with
\* the fallback color
C12_LoggedUnless200 ==
    \A e \in SentMessages :
        /\ events[e].logged # <<>> <=> events[e].response.code # 200
        /\ (events[e].results.none \/ events[e].results.val \notin Keys(events[e].self.colors))
              => PostedColor(e) = "warning"

\* A response with status 204 was logged
C12_Logged204 ==
    /\ 1 \in SentMessages
    /\ events[1].response.code = 204
    /\ events[1].logged = <<"POST response code 204: ok">>

\* A failed POST made sendMessage fail
C12_Raised == 1 \in RaisedMessages

=============================================================================
